---- MODULE Spec2Model ----
(***************************************************************************)
(* Relay synchronisation of the Pico-W home automation dashboard.          *)
(*                                                                         *)
(* Two dashboards exist in the repository: the basic one (src/js/app.js), *)
(* which talks to the Firebase realtime database only, and the API-capable *)
(* one (src/frontend/js/app.js), which sends its requests to an HTTP API   *)
(* when its last connection check succeeded and to the database otherwise. *)
(* A client of the model is one browser page running one of the two.       *)
(*                                                                         *)
(* JavaScript values are modelled as strings ("true", "false",             *)
(* "undefined", "1", "0", "on", "" ...) so that the truthiness rules of    *)
(* `a || b` and `!a` are computed as the language computes them.           *)
(* A relay key relay_<k> is modelled by the integer k.                     *)
(*                                                                         *)
(* The application is initialised by the authentication callback           *)
(* (src/js/auth.js): every callback that is handed a user calls init(),    *)
(* a callback without one shows the login modal and does nothing else.     *)
(*                                                                         *)
(* Of the page itself the model keeps what the handlers write and a user     *)
(* reads back: the text of the active count, the checkboxes of the relay     *)
(* cards, the login modal and the login error line.                          *)
(***************************************************************************)
EXTENDS Integers, Sequences, FiniteSets, TLC

\* ---------------------------------------------------------------- bounds
MaxOps == 1
MaxClickChan == 2
MaxReports == 2

\* ------------------------------------------------------ program constants
RELAY_COUNT == 16
NullDate == 0

RELAY_NAMES ==
  << "Living Room Light", "Kitchen Fan", "Bedroom AC", "Garden Pump",
     "Garage Door", "Pool Pump", "Security Light", "Bathroom Fan",
     "Washing Machine", "Dryer", "Water Heater", "Outdoor Light",
     "Workshop Light", "Shed Power", "Irrigation System", "Backup Power" >>

\* one page of each dashboard: src/js/app.js and src/frontend/js/app.js
Clients == {"basic", "api"}
Channels == 1..RELAY_COUNT
ClickChannels == 1..MaxClickChan

\* ------------------------------------------------------ JavaScript values
Falsy == {"false", "undefined", "null", "0", ""}

Truthy(v) == v \notin Falsy

\* a || b
JsOr(a, b) == IF Truthy(a) THEN a ELSE b

\* !a
JsNot(a) == IF Truthy(a) THEN "false" ELSE "true"

\* `Device ${relayId.split('_')[1]}`
DeviceName(k) == "Device " \o ToString(k)

\* the empty mapping: snapshot.val() === null, or an empty `updates` object
Empty == << >>

\* ------------------------------------------------------------- variables
VARIABLES
  remoteRelays,   \* home_automation/devices/pico_w_001/relays in the database
  clock,          \* per page, the time `new Date()` last returned (0: never read)
  phase,          \* "unloaded", "constructed", "checking", "syncing"
  apiConnected,   \* this.apiConnected (always FALSE in the basic dashboard)
  relayStates,    \* this.relayStates
  inbox,          \* database events on their way to the client, in order
  outbox,         \* database writes on their way to the remote store, in order
  http,           \* HTTP exchanges with the API server that are in flight
  notices,        \* per page, how many notifications of each type were shown
  ops,            \* per actor, the intents, sign-ins again and reports so far
  currentUser,    \* authManager.currentUser: "null" or "user"
  listeners,      \* per page, how many times its 'value' listeners are registered
  deviceOnline,   \* this.deviceOnline
  remoteOnline,   \* home_automation/devices/pico_w_001/online in the database
  activeCount,    \* per page, the text of the element 'active-count'
  toggles,        \* per page, the `checked` property of each checkbox toggle-relay_<k>
  modal,          \* per page, the login modal: "markup", "shown" or "hidden"
  loginError      \* per page, the login error line: "markup", "shown" or "hidden"

vars == << remoteRelays, clock, phase, apiConnected, relayStates,
           inbox, outbox, http, notices, ops,
           currentUser, listeners, deviceOnline, remoteOnline,
           activeCount, toggles, modal, loginError >>

\* ------------------------------------------------------------ the store
\* mutant: the loop starts at the second relay
createRelayControls_short ==
  [i \in 2..RELAY_COUNT |->
     [status |-> "false",
      name |-> JsOr(RELAY_NAMES[i], DeviceName(i)),
      lastChanged |-> NullDate]]

\* createRelayControls: the 16 entries written by the loop
createRelayControls ==
  [i \in 1..RELAY_COUNT |->
     [status |-> "false",
      name |-> JsOr(RELAY_NAMES[i], DeviceName(i)),
      lastChanged |-> NullDate]]

\* the loop of createRelayControls run on a store that already has entries:
\* each of the 16 keys is assigned its initial entry, other keys are left alone
createRelayControlsOn(store) ==
  [k \in (DOMAIN store) \cup (DOMAIN createRelayControls) |->
     IF k \in DOMAIN createRelayControls THEN createRelayControls[k] ELSE store[k]]

\* mutant: the store is rebuilt from the snapshot, relays it omits fall back to
\* their defaults
updateRelayStates_rebuilds(store, relayData, t) ==
  [k \in (DOMAIN store) \cup (DOMAIN relayData) |->
     IF k \in DOMAIN relayData
       THEN [status |-> JsOr(relayData[k].status, "false"),
             name |-> JsOr(relayData[k].name,
                           JsOr(IF k \in DOMAIN store THEN store[k].name
                                                      ELSE "undefined",
                                DeviceName(k))),
             lastChanged |-> t]
       ELSE [status |-> "false", name |-> store[k].name, lastChanged |-> NullDate]]

\* mutant: a snapshot without a name puts the default name back
updateRelayStates_renames(store, relayData, t) ==
  [k \in (DOMAIN store) \cup (DOMAIN relayData) |->
     IF k \in DOMAIN relayData
       THEN [status |-> JsOr(relayData[k].status, "false"),
             name |-> JsOr(relayData[k].name, DeviceName(k)),
             lastChanged |-> t]
       ELSE store[k]]

\* updateRelayStates(relayData), run at wall-clock time t
updateRelayStates(store, relayData, t) ==
  [k \in (DOMAIN store) \cup (DOMAIN relayData) |->
     IF k \in DOMAIN relayData
       THEN [status |-> JsOr(relayData[k].status, "false"),
             name |-> JsOr(relayData[k].name,
                           JsOr(IF k \in DOMAIN store THEN store[k].name
                                                      ELSE "undefined",
                                DeviceName(k))),
             lastChanged |-> t]
       ELSE store[k]]

\* mutant: a null snapshot is taken to mean that every relay is off
applyIfPresent_clears(store, relayData, t) ==
  IF relayData = Empty
    THEN [k \in DOMAIN store |-> [store[k] EXCEPT !.status = "false"]]
    ELSE updateRelayStates(store, relayData, t)

\* `if (relayData) this.updateRelayStates(relayData)`
applyIfPresent(store, relayData, t) ==
  IF relayData = Empty THEN store ELSE updateRelayStates(store, relayData, t)

\* the checkboxes of the 16 relay cards as createRelayControls builds them
relayCards == [i \in 1..RELAY_COUNT |-> FALSE]

\* `if (isActive) activeCount++` over the keys of relayData
countActive(relayData) ==
  Cardinality({k \in DOMAIN relayData : Truthy(relayData[k].status)})

\* the text written to 'active-count': `${activeCount} / 16` in the basic
\* dashboard, `${activeCount}/${APP_CONFIG.RELAY_COUNT}` in the API-capable one
countText(c, n) ==
  IF c = "basic" THEN ToString(n) \o " / 16"
                 ELSE ToString(n) \o "/" \o ToString(RELAY_COUNT)

\* updateRelayUI for every key of relayData: `if (toggle) toggle.checked = isActive`
updateRelayUI(checked, relayData) ==
  [k \in DOMAIN checked |->
     IF k \in DOMAIN relayData THEN Truthy(relayData[k].status) ELSE checked[k]]

\* this.relayStates[relayId]?.status  (undefined when there is no entry)
cachedStatus(store, k) ==
  IF k \in DOMAIN store THEN store[k].status ELSE "undefined"

\* ------------------------------------------------------- the remote store
\* the relay node after its status field is written
withStatus(relays, k, v) ==
  IF k \in DOMAIN relays THEN [relays[k] EXCEPT !.status = v]
                         ELSE [status |-> v, name |-> "undefined"]

\* set() / update(): every listed status path gets its value, atomically
applyUpdates(relays, updates) ==
  [k \in (DOMAIN relays) \cup (DOMAIN updates) |->
     IF k \in DOMAIN updates THEN withStatus(relays, k, updates[k])
                             ELSE relays[k]]

\* the status the remote store holds for a channel
remoteStatus(relays, k) ==
  IF k \in DOMAIN relays THEN relays[k].status ELSE "undefined"

\* mutant: the API server flips the relay it is asked to set
apiEffect_flips(relays, x) ==
  CASE x.endpoint = "relay" ->
         applyUpdates(relays, [k \in {x.chan} |-> JsNot(remoteStatus(relays, k))])
    [] x.endpoint = "bulk" ->
         applyUpdates(relays, [k \in Channels |-> x.status])
    [] x.endpoint = "toggle-all" ->
         applyUpdates(relays, [k \in Channels |-> JsNot(remoteStatus(relays, k))])
    [] OTHER -> relays

\* what the API server writes for a request it accepts
apiEffect(relays, x) ==
  CASE x.endpoint = "relay" ->
         applyUpdates(relays, [k \in {x.chan} |-> x.status])
    [] x.endpoint = "bulk" ->
         applyUpdates(relays, [k \in Channels |-> x.status])
    [] x.endpoint = "toggle-all" ->
         applyUpdates(relays, [k \in Channels |-> JsNot(remoteStatus(relays, k))])
    [] OTHER -> relays

\* clients with a 'value' listener registered on the relays subtree and on
\* the online flag (setupFirebaseListeners registers them together)
Subscribed == {c \in Clients : listeners[c] > 0}

\* one callback invocation per registered listener
Copies(n, e) == [i \in 1..n |-> e]

\* a 'value' event for every registered listener, when the subtree changed
broadcast(box, old, new) ==
  [c \in Clients |->
     IF c \in Subscribed /\ new # old
       THEN box[c] \o Copies(listeners[c],
                             [kind |-> "relays", val |-> new, online |-> "undefined",
                              ok |-> TRUE, intent |-> "none", chan |-> 0])
       ELSE box[c]]

\* a 'value' event of the online flag for every registered listener
broadcastOnline(box, v) ==
  [c \in Clients |->
     IF c \in Subscribed
       THEN box[c] \o Copies(listeners[c],
                             [kind |-> "online", val |-> Empty, online |-> v,
                              ok |-> TRUE, intent |-> "none", chan |-> 0])
       ELSE box[c]]

\* what the database may hold under relays when the pages load: nothing, or
\* the first two relays switched on by an earlier session
InitialRelays ==
  {Empty, [k \in {1, 2} |-> [status |-> "true", name |-> "undefined"]]}

\* the device that wrote those relays also reported itself online
InitialOnline(relays) == IF relays = Empty THEN "undefined" ELSE "true"

\* the pages, and the device with everyone else who writes to the database
Actors == Clients \cup {"device"}

\* ------------------------------------------------------------------ Init
Init ==
  /\ remoteRelays \in InitialRelays
  /\ remoteOnline = InitialOnline(remoteRelays)
  /\ currentUser = [c \in Clients |-> "null"]
  /\ listeners = [c \in Clients |-> 0]
  /\ deviceOnline = [c \in Clients |-> "false"]
  /\ clock = [c \in Clients |-> 0]
  /\ phase = [c \in Clients |-> "unloaded"]
  /\ apiConnected = [c \in Clients |-> FALSE]
  /\ relayStates = [c \in Clients |-> Empty]
  /\ inbox = [c \in Clients |-> << >>]
  /\ outbox = [c \in Clients |-> << >>]
  /\ http = [c \in Clients |-> << >>]
  /\ notices = [c \in Clients |-> [success |-> 0, error |-> 0]]
  /\ ops = [a \in Actors |-> 0]
  /\ activeCount = [c \in Clients |-> ""]
  /\ toggles = [c \in Clients |-> Empty]
  /\ modal = [c \in Clients |-> "markup"]
  /\ loginError = [c \in Clients |-> "markup"]

\* --------------------------------------------------------------- messages
Event(kind, val) ==
  [kind |-> kind, val |-> val, online |-> "undefined", ok |-> TRUE,
   intent |-> "none", chan |-> 0]

\* the first 'value' event of a listener on the online flag
OnlineEvent(v) ==
  [kind |-> "online", val |-> Empty, online |-> v, ok |-> TRUE,
   intent |-> "none", chan |-> 0]

\* the snapshot of deviceRef.once('value'): the whole device node
DeviceEvent(relays, online) ==
  [kind |-> "once", val |-> relays, online |-> online, ok |-> TRUE,
   intent |-> "none", chan |-> 0]

\* the promise of a write settles; val is the `updates` the awaiting handler
\* sent, which it still holds (newStatus in toggleRelay)
Ack(ok, w) ==
  [kind |-> "ack", val |-> w.updates, online |-> "undefined", ok |-> ok,
   intent |-> w.intent, chan |-> w.chan]

\* a database write: ref.set(status) on one status path, or ref().update(updates)
Write(op, intent, ch, updates) ==
  [op |-> op, intent |-> intent, chan |-> ch, updates |-> updates]

\* an HTTP exchange with the API server
Exchange(endpoint, intent, ch, status) ==
  [endpoint |-> endpoint, intent |-> intent, chan |-> ch, status |-> status,
   stage |-> "sent", val |-> Empty, online |-> "undefined"]

RemoveAt(q, i) == [j \in 1..(Len(q) - 1) |-> IF j < i THEN q[j] ELSE q[j + 1]]

\* ------------------------------------------------------ page construction
\* new HomeAutomationApp(): relayStates = {} and then createRelayControls()
constructor(c) ==
  /\ phase[c] = "unloaded"
  /\ phase' = [phase EXCEPT ![c] = "constructed"]
  /\ relayStates' = [relayStates EXCEPT ![c] = createRelayControls]
  /\ deviceOnline' = [deviceOnline EXCEPT ![c] = "false"]
  /\ toggles' = [toggles EXCEPT ![c] = relayCards]
  /\ UNCHANGED << remoteRelays, clock, apiConnected, inbox, outbox, http,
                  notices, ops, currentUser, listeners, remoteOnline,
                  activeCount, modal, loginError >>

\* homeAutomationApp.createRelayControls() called again on the running page:
\* the cards are built anew and the loop assigns the 16 initial entries
recreateRelayControls(c) ==
  /\ phase[c] = "syncing"
  /\ ops[c] < MaxOps
  /\ ops' = [ops EXCEPT ![c] = @ + 1]
  /\ relayStates' = [relayStates EXCEPT ![c] = createRelayControlsOn(@)]
  /\ toggles' = [toggles EXCEPT ![c] = relayCards]
  /\ UNCHANGED << remoteRelays, clock, phase, apiConnected, inbox, outbox, http,
                  notices, currentUser, listeners, deviceOnline, remoteOnline,
                  activeCount, modal, loginError >>

\* setupFirebaseListeners(): one more listener on the online flag and one more
\* on the relays subtree, each with its first 'value' event on the way
setupFirebaseListeners(c) ==
  /\ listeners' = [listeners EXCEPT ![c] = @ + 1]

\* the first events of the listeners just registered
FirstEvents == << OnlineEvent(remoteOnline), Event("relays", remoteRelays) >>

\* basic dashboard: init() = setupFirebaseListeners(); loadRelayStates()
\* the listeners get their first 'value' event, the one-time read its only one
initBasic(c) ==
  /\ c = "basic"
  /\ phase' = [phase EXCEPT ![c] = "syncing"]
  /\ setupFirebaseListeners(c)
  /\ inbox' = [inbox EXCEPT ![c] =
                 inbox[c] \o FirstEvents \o << Event("once", remoteRelays) >>]
  /\ UNCHANGED << remoteRelays, clock, apiConnected, relayStates, outbox, http,
                  notices, deviceOnline, remoteOnline,
                  activeCount, toggles >>

\* API-capable dashboard: init() first awaits checkApiConnection()
initApi(c) ==
  /\ c = "api"
  /\ phase' = [phase EXCEPT ![c] = "checking"]
  /\ UNCHANGED << remoteRelays, clock, apiConnected, relayStates, inbox,
                  outbox, http, notices, listeners, deviceOnline, remoteOnline,
                  activeCount, toggles >>

\* window.homeAutomationApp.init()
init(c) == initBasic(c) \/ initApi(c)

\* login(): `await auth.signInWithEmailAndPassword(...); this.hideError()`.
\* A user handed to the callback while the modal is shown signed in through
\* the form; the session restored at page load comes without login().
hideError(user, shown, line) ==
  IF user # "null" /\ shown = "shown" THEN "hidden" ELSE line

\* mutant: the callback initialises the application whatever it is handed
onAuthStateChanged_always(c, user) ==
  /\ phase[c] \in {"constructed", "syncing"}
  /\ currentUser[c] # user \/ modal[c] = "markup"
  /\ currentUser' = [currentUser EXCEPT ![c] = user]
  /\ modal' = [modal EXCEPT ![c] = IF user # "null" THEN "hidden" ELSE "shown"]
  /\ loginError' = [loginError EXCEPT ![c] = hideError(user, modal[c], @)]
  /\ IF currentUser[c] # "null" /\ user = "null"
       THEN ops[c] < MaxOps /\ ops' = [ops EXCEPT ![c] = @ + 1]
       ELSE UNCHANGED ops
  /\ init(c)

\* mutant: the callback hides the modal for a user and never shows it again
onAuthStateChanged_keepsModal(c, user) ==
  /\ phase[c] # "unloaded"
  /\ currentUser[c] # user \/ modal[c] = "markup"
  /\ currentUser' = [currentUser EXCEPT ![c] = user]
  /\ modal' = [modal EXCEPT ![c] = IF user # "null" \/ @ = "hidden" THEN "hidden"
                                                                      ELSE "shown"]
  /\ loginError' = [loginError EXCEPT ![c] = hideError(user, modal[c], @)]
  /\ IF user # "null"
       THEN /\ phase[c] \in {"constructed", "syncing"}
            /\ UNCHANGED ops
            /\ init(c)
       ELSE /\ IF currentUser[c] # "null"
                 THEN ops[c] < MaxOps /\ ops' = [ops EXCEPT ![c] = @ + 1]
                 ELSE UNCHANGED ops
            /\ UNCHANGED << remoteRelays, clock, phase, apiConnected, relayStates,
                            inbox, outbox, http, notices, listeners,
                            deviceOnline, remoteOnline, activeCount, toggles >>

\* auth.onAuthStateChanged((user) => ...): with a user the modal is hidden and
\* the application initialised, without one the login modal is shown and
\* nothing else. The callback runs when the authentication state changes and
\* once when the page has loaded (the modal is then as the markup has it).
\* A page signs in when no init() is still waiting for the API check; a
\* sign-out counts as an operation of the page.
onAuthStateChanged(c, user) ==
  /\ phase[c] # "unloaded"
  /\ currentUser[c] # user \/ modal[c] = "markup"
  /\ currentUser' = [currentUser EXCEPT ![c] = user]
  /\ modal' = [modal EXCEPT ![c] = IF user # "null" THEN "hidden" ELSE "shown"]
  /\ loginError' = [loginError EXCEPT ![c] = hideError(user, modal[c], @)]
  /\ IF user # "null"
       THEN /\ phase[c] \in {"constructed", "syncing"}
            /\ UNCHANGED ops
            /\ init(c)
       ELSE /\ IF currentUser[c] # "null"
                 THEN ops[c] < MaxOps /\ ops' = [ops EXCEPT ![c] = @ + 1]
                 ELSE UNCHANGED ops
            /\ UNCHANGED << remoteRelays, clock, phase, apiConnected, relayStates,
                            inbox, outbox, http, notices, listeners,
                            deviceOnline, remoteOnline, activeCount, toggles >>

\* login() with credentials the authentication service rejects: the catch
\* block shows the error line; no authentication callback follows
loginFailed(c) ==
  /\ phase[c] # "unloaded"
  /\ currentUser[c] = "null"
  /\ modal[c] = "shown"
  /\ loginError' = [loginError EXCEPT ![c] = "shown"]
  /\ UNCHANGED << remoteRelays, clock, phase, apiConnected, relayStates, inbox,
                  outbox, http, notices, ops, currentUser, listeners,
                  deviceOnline, remoteOnline, activeCount, toggles, modal >>

\* checkApiConnection() settles; init() goes on with setupFirebaseListeners()
\* and loadInitialData(), which asks the API when connected, the database if not
checkApiConnection(c, ok) ==
  /\ phase[c] = "checking"
  /\ apiConnected' = [apiConnected EXCEPT ![c] = ok]
  /\ phase' = [phase EXCEPT ![c] = "syncing"]
  /\ setupFirebaseListeners(c)
  /\ inbox' = [inbox EXCEPT ![c] =
                 IF ok THEN inbox[c] \o FirstEvents
                       ELSE inbox[c] \o FirstEvents
                              \o << DeviceEvent(remoteRelays, remoteOnline) >>]
  /\ http' = [http EXCEPT ![c] =
                IF ok THEN Append(http[c], Exchange("devices", "load", 0, "undefined"))
                      ELSE http[c]]
  /\ UNCHANGED << remoteRelays, clock, relayStates, outbox, notices, ops,
                  currentUser, deviceOnline, remoteOnline,
                  activeCount, toggles, modal, loginError >>

\* ------------------------------------------------------- inbound handlers
\* the store after a handler was handed relayData, with the clock and the flag
receive(c, relayData) ==
  /\ relayStates' = [relayStates EXCEPT
                       ![c] = applyIfPresent(relayStates[c], relayData, clock[c] + 1)]
  /\ clock' = [clock EXCEPT ![c] = IF relayData = Empty THEN @ ELSE @ + 1]
  /\ activeCount' = [activeCount EXCEPT
                       ![c] = IF relayData = Empty
                                THEN @ ELSE countText(c, countActive(relayData))]
  /\ toggles' = [toggles EXCEPT
                   ![c] = IF relayData = Empty THEN @ ELSE updateRelayUI(@, relayData)]

\* mutant: a page that is still waiting for the answer to a write of its own
\* trusts that write and skips the snapshot
relaysListener_skipsEcho(c) ==
  /\ inbox[c] # << >>
  /\ Head(inbox[c]).kind = "relays"
  /\ IF \E i \in 1..Len(inbox[c]) : inbox[c][i].kind = "ack"
       THEN UNCHANGED << relayStates, clock, activeCount, toggles >>
       ELSE receive(c, Head(inbox[c]).val)
  /\ inbox' = [inbox EXCEPT ![c] = Tail(inbox[c])]
  /\ UNCHANGED << remoteRelays, phase, apiConnected, outbox, http, notices,
                  ops, currentUser, listeners, deviceOnline, remoteOnline,
                  modal, loginError >>

\* deviceRef.child('relays').on('value', ...)
relaysListener(c) ==
  /\ inbox[c] # << >>
  /\ Head(inbox[c]).kind = "relays"
  /\ receive(c, Head(inbox[c]).val)
  /\ inbox' = [inbox EXCEPT ![c] = Tail(inbox[c])]
  /\ UNCHANGED << remoteRelays, phase, apiConnected, outbox, http, notices,
                  ops,
                  currentUser, listeners, deviceOnline, remoteOnline,
                  modal, loginError >>

\* showNotification(message, type)
showNotification(c, type) ==
  notices' = [notices EXCEPT ![c][type] = @ + 1]

\* after a successful request every handler shows a success notification,
\* except setRelay of the basic dashboard, which only logs to the console
reportSuccess(c, intent) ==
  IF c = "basic" /\ intent = "toggleRelay" THEN UNCHANGED notices
                                           ELSE showNotification(c, "success")

\* this.deviceOnline = snapshot.val() || false
onlineValue(v) == JsOr(v, "false")

\* mutant: the flag is only ever raised
onlineListener_sticky(c) ==
  /\ inbox[c] # << >>
  /\ Head(inbox[c]).kind = "online"
  /\ deviceOnline' = [deviceOnline EXCEPT
                        ![c] = JsOr(@, onlineValue(Head(inbox[c]).online))]
  /\ inbox' = [inbox EXCEPT ![c] = Tail(inbox[c])]
  /\ UNCHANGED << remoteRelays, clock, phase, apiConnected, relayStates, outbox,
                  http, notices, ops, currentUser, listeners, remoteOnline,
                  activeCount, toggles, modal, loginError >>

\* deviceRef.child('online').on('value', ...)
onlineListener(c) ==
  /\ inbox[c] # << >>
  /\ Head(inbox[c]).kind = "online"
  /\ deviceOnline' = [deviceOnline EXCEPT ![c] = onlineValue(Head(inbox[c]).online)]
  /\ inbox' = [inbox EXCEPT ![c] = Tail(inbox[c])]
  /\ UNCHANGED << remoteRelays, clock, phase, apiConnected, relayStates, outbox,
                  http, notices, ops, currentUser, listeners, remoteOnline,
                  activeCount, toggles, modal, loginError >>

\* updateFromFirebaseData(data) / updateFromApiData(data): the flag is taken
\* from the device node as well
updateFromData(c, online) ==
  deviceOnline' = [deviceOnline EXCEPT ![c] = onlineValue(online)]

\* relaysRef.once('value', ...) of loadRelayStates, and the database branch of
\* loadInitialData: `if (data) this.updateFromFirebaseData(data)`
onceCallback(c) ==
  /\ inbox[c] # << >>
  /\ Head(inbox[c]).kind = "once"
  /\ receive(c, Head(inbox[c]).val)
  /\ IF c = "api" /\ (Head(inbox[c]).val # Empty \/ Head(inbox[c]).online # "undefined")
       THEN updateFromData(c, Head(inbox[c]).online)
       ELSE UNCHANGED deviceOnline
  /\ inbox' = [inbox EXCEPT ![c] = Tail(inbox[c])]
  /\ UNCHANGED << remoteRelays, phase, apiConnected, outbox, http, notices,
                  ops, currentUser, listeners, remoteOnline,
                  modal, loginError >>

\* the one-time read fails: loadRelayStates passed no failure callback and
\* nothing is shown; loadInitialData awaits the read in a try block and its
\* catch block reports the failure
onceFailed(c) ==
  /\ inbox[c] # << >>
  /\ Head(inbox[c]).kind = "once"
  /\ inbox' = [inbox EXCEPT ![c] = Tail(inbox[c])]
  /\ IF c = "api" THEN showNotification(c, "error") ELSE UNCHANGED notices
  /\ UNCHANGED << remoteRelays, clock, phase, apiConnected, relayStates, outbox,
                  http, ops, currentUser, listeners, deviceOnline, remoteOnline,
                  activeCount, toggles, modal, loginError >>

\* mutant: the value of a resolved write is committed to the store at once
writeResolved_commits(c) ==
  /\ inbox[c] # << >>
  /\ Head(inbox[c]).kind = "ack"
  /\ Head(inbox[c]).ok
  /\ inbox' = [inbox EXCEPT ![c] = Tail(inbox[c])]
  /\ reportSuccess(c, Head(inbox[c]).intent)
  /\ relayStates' = [relayStates EXCEPT ![c] =
                       [k \in DOMAIN relayStates[c] |->
                          IF Head(inbox[c]).chan \in {0, k}
                            THEN [relayStates[c][k] EXCEPT
                                    !.status = JsNot(relayStates[c][k].status)]
                            ELSE relayStates[c][k]]]
  /\ UNCHANGED << remoteRelays, clock, phase, apiConnected, outbox, http, ops,
                  currentUser, listeners, deviceOnline, remoteOnline,
                  activeCount, toggles, modal, loginError >>

\* `await relayRef.set(...)` / `await database.ref().update(...)` resolves
writeResolved(c) ==
  /\ inbox[c] # << >>
  /\ Head(inbox[c]).kind = "ack"
  /\ Head(inbox[c]).ok
  /\ inbox' = [inbox EXCEPT ![c] = Tail(inbox[c])]
  /\ reportSuccess(c, Head(inbox[c]).intent)
  /\ UNCHANGED << remoteRelays, clock, phase, apiConnected, relayStates,
                  outbox, http, ops,
                  currentUser, listeners, deviceOnline, remoteOnline,
                  activeCount, toggles, modal, loginError >>

\* the catch block of toggleRelay in the API-capable dashboard:
\* `if (toggle) toggle.checked = currentState.status`, where currentState is the
\* entry read when the intent was issued and sent = !currentState.status
revertToggle(c, checked, intent, relayId, sent) ==
  IF c = "api" /\ intent = "toggleRelay"
    THEN [checked EXCEPT ![relayId] = (sent = "false")]
    ELSE checked

\* mutant: the catch block puts the store back to its defaults
writeRejected_resets(c) ==
  /\ inbox[c] # << >>
  /\ Head(inbox[c]).kind = "ack"
  /\ ~Head(inbox[c]).ok
  /\ inbox' = [inbox EXCEPT ![c] = Tail(inbox[c])]
  /\ showNotification(c, "error")
  /\ relayStates' = [relayStates EXCEPT ![c] = createRelayControls]
  /\ UNCHANGED << remoteRelays, clock, phase, apiConnected, outbox, http, ops,
                  currentUser, listeners, deviceOnline, remoteOnline,
                  activeCount, toggles, modal, loginError >>

\* mutant: the catch block reports the failure and issues the write again
writeRejected_retries(c) ==
  /\ inbox[c] # << >>
  /\ Head(inbox[c]).kind = "ack"
  /\ ~Head(inbox[c]).ok
  /\ inbox' = [inbox EXCEPT ![c] = Tail(inbox[c])]
  /\ showNotification(c, "error")
  /\ outbox' = [outbox EXCEPT ![c] =
                  Append(@, Write("set", Head(inbox[c]).intent, Head(inbox[c]).chan,
                                  [k \in {1} |-> "false"]))]
  /\ UNCHANGED << remoteRelays, clock, phase, apiConnected, relayStates, http,
                  ops, currentUser, listeners, deviceOnline, remoteOnline,
                  activeCount, toggles, modal, loginError >>

\* the same await rejects: the catch block reports the failure
writeRejected(c) ==
  /\ inbox[c] # << >>
  /\ Head(inbox[c]).kind = "ack"
  /\ ~Head(inbox[c]).ok
  /\ inbox' = [inbox EXCEPT ![c] = Tail(inbox[c])]
  /\ showNotification(c, "error")
  /\ toggles' = [toggles EXCEPT
                   ![c] = revertToggle(c, @, Head(inbox[c]).intent, Head(inbox[c]).chan,
                                       IF Head(inbox[c]).chan \in DOMAIN Head(inbox[c]).val
                                         THEN Head(inbox[c]).val[Head(inbox[c]).chan]
                                         ELSE "undefined")]
  /\ UNCHANGED << remoteRelays, clock, phase, apiConnected, relayStates,
                  outbox, http, ops,
                  currentUser, listeners, deviceOnline, remoteOnline,
                  activeCount, modal, loginError >>

\* loadInitialData: the API answered, updateFromApiData(response)
apiLoaded(c, i) ==
  /\ i \in 1..Len(http[c])
  /\ http[c][i].intent = "load"
  /\ http[c][i].stage = "ok"
  /\ receive(c, http[c][i].val)
  /\ updateFromData(c, http[c][i].online)
  /\ http' = [http EXCEPT ![c] = RemoveAt(http[c], i)]
  /\ UNCHANGED << remoteRelays, phase, apiConnected, inbox, outbox, notices,
                  ops, currentUser, listeners, remoteOnline,
                  modal, loginError >>

\* `await Utils.apiRequest(...)` of an intent resolves
apiResolved(c, i) ==
  /\ i \in 1..Len(http[c])
  /\ http[c][i].intent # "load"
  /\ http[c][i].stage = "ok"
  /\ http' = [http EXCEPT ![c] = RemoveAt(http[c], i)]
  /\ reportSuccess(c, http[c][i].intent)
  /\ UNCHANGED << remoteRelays, clock, phase, apiConnected, relayStates, inbox,
                  outbox, ops,
                  currentUser, listeners, deviceOnline, remoteOnline,
                  activeCount, toggles, modal, loginError >>

\* `await Utils.apiRequest(...)` rejects, in an intent or in loadInitialData:
\* the catch block reports the failure
apiRejected(c, i) ==
  /\ i \in 1..Len(http[c])
  /\ http[c][i].stage = "err"
  /\ http' = [http EXCEPT ![c] = RemoveAt(http[c], i)]
  /\ showNotification(c, "error")
  /\ toggles' = [toggles EXCEPT
                   ![c] = revertToggle(c, @, http[c][i].intent, http[c][i].chan,
                                       http[c][i].status)]
  /\ UNCHANGED << remoteRelays, clock, phase, apiConnected, relayStates, inbox,
                  outbox, ops,
                  currentUser, listeners, deviceOnline, remoteOnline,
                  activeCount, modal, loginError >>

\* ---------------------------------------------------------------- intents
\* intents come from a dashboard that has been initialised; the bound caps them
CanClick(c) == phase[c] = "syncing" /\ ops[c] < MaxOps

\* mutant: with the API connected the database is written as well
send_both(c, exchange, write) ==
  /\ http' = [http EXCEPT ![c] = IF apiConnected[c] THEN Append(http[c], exchange)
                                                    ELSE http[c]]
  /\ outbox' = [outbox EXCEPT ![c] = Append(outbox[c], write)]
  /\ ops' = [ops EXCEPT ![c] = @ + 1]
  /\ UNCHANGED << remoteRelays, clock, phase, apiConnected, relayStates, inbox,
                  notices, currentUser, listeners, deviceOnline, remoteOnline,
                  activeCount, modal, loginError >>

\* the request leaves for the API when connected, for the database otherwise
send(c, exchange, write) ==
  /\ http' = [http EXCEPT ![c] = IF apiConnected[c] THEN Append(http[c], exchange)
                                                    ELSE http[c]]
  /\ outbox' = [outbox EXCEPT ![c] = IF apiConnected[c] THEN outbox[c]
                                                        ELSE Append(outbox[c], write)]
  /\ ops' = [ops EXCEPT ![c] = @ + 1]
  /\ UNCHANGED << remoteRelays, clock, phase, apiConnected, relayStates, inbox,
                  notices,
                  currentUser, listeners, deviceOnline, remoteOnline,
                  activeCount, modal, loginError >>

\* mutant: the new value is computed arithmetically, as 1 - status
newStatus_numeric(store, relayId) ==
  IF Truthy(store[relayId].status) THEN "0" ELSE "1"

\* mutant: the cached status is written back without the negation
newStatus_same(store, relayId) == store[relayId].status

\* const newStatus = !this.relayStates[relayId].status
newStatus(store, relayId) == JsNot(store[relayId].status)

\* toggleRelay(relayId) (with setRelay in the basic dashboard), called by the
\* onchange handler of the checkbox the user has just flipped
toggleRelay(c, relayId) ==
  /\ CanClick(c)
  /\ relayId \in ClickChannels
  /\ toggles' = [toggles EXCEPT ![c][relayId] = ~@]
  /\ send(c, Exchange("relay", "toggleRelay", relayId,
                      newStatus(relayStates[c], relayId)),
             Write("set", "toggleRelay", relayId,
                   [k \in {relayId} |-> newStatus(relayStates[c], relayId)]))

\* mutant: the loop stops one relay short
setAllUpdates_short(status) == [i \in 1..(RELAY_COUNT - 1) |-> status]

\* the `updates` object built by setAllRelays(status)
setAllUpdates(status) == [i \in 1..RELAY_COUNT |-> status]

\* mutant: the relays are written in two requests of eight paths each
setAllRelays_halves(c, status) ==
  /\ CanClick(c)
  /\ http' = [http EXCEPT ![c] =
                IF apiConnected[c]
                  THEN Append(http[c], Exchange("bulk", "setAllRelays", 0, status))
                  ELSE http[c]]
  /\ outbox' = [outbox EXCEPT ![c] =
                  IF apiConnected[c]
                    THEN outbox[c]
                    ELSE outbox[c]
                           \o << Write("update", "setAllRelays", 0,
                                       [i \in 1..8 |-> status]),
                                 Write("update", "setAllRelays", 0,
                                       [i \in 9..RELAY_COUNT |-> status]) >>]
  /\ ops' = [ops EXCEPT ![c] = @ + 1]
  /\ UNCHANGED << remoteRelays, clock, phase, apiConnected, relayStates, inbox,
                  notices, currentUser, listeners, deviceOnline, remoteOnline,
                  activeCount, toggles, modal, loginError >>

\* setAllRelays(status)
setAllRelays(c, status) ==
  /\ CanClick(c)
  /\ send(c, Exchange("bulk", "setAllRelays", 0, status),
             Write("update", "setAllRelays", 0, setAllUpdates(status)))
  /\ UNCHANGED toggles

\* mutant: one flag, the negation of the first relay, is written to every relay
toggleAllUpdates_global(store) ==
  [i \in 1..RELAY_COUNT |-> JsNot(JsOr(cachedStatus(store, 1), "false"))]

\* the `updates` object built by toggleAllRelays()
toggleAllUpdates(store) ==
  [i \in 1..RELAY_COUNT |-> JsNot(JsOr(cachedStatus(store, i), "false"))]

\* toggleAllRelays()
toggleAllRelays(c) ==
  /\ CanClick(c)
  /\ send(c, Exchange("toggle-all", "toggleAllRelays", 0, "undefined"),
             Write("update", "toggleAllRelays", 0, toggleAllUpdates(relayStates[c])))
  /\ UNCHANGED toggles

\* --------------------------------------------- remote store and API server
\* the database accepts the oldest write of a client: every path of it is
\* written at once, the listeners are told, the writer's promise resolves
remoteApply(c) ==
  /\ outbox[c] # << >>
  /\ remoteRelays' = applyUpdates(remoteRelays, Head(outbox[c]).updates)
  /\ inbox' = [d \in Clients |->
                 IF d = c THEN Append(broadcast(inbox, remoteRelays, remoteRelays')[d],
                                      Ack(TRUE, Head(outbox[c])))
                          ELSE broadcast(inbox, remoteRelays, remoteRelays')[d]]
  /\ outbox' = [outbox EXCEPT ![c] = Tail(outbox[c])]
  /\ UNCHANGED << clock, phase, apiConnected, relayStates, http, notices, ops,
                  currentUser, listeners, deviceOnline, remoteOnline,
                  activeCount, toggles, modal, loginError >>

\* the database rejects it (network or permission error): nothing is written
remoteReject(c) ==
  /\ outbox[c] # << >>
  /\ inbox' = [inbox EXCEPT ![c] = Append(inbox[c], Ack(FALSE, Head(outbox[c])))]
  /\ outbox' = [outbox EXCEPT ![c] = Tail(outbox[c])]
  /\ UNCHANGED << remoteRelays, clock, phase, apiConnected, relayStates, http,
                  notices, ops,
                  currentUser, listeners, deviceOnline, remoteOnline,
                  activeCount, toggles, modal, loginError >>

\* the API server serves a request: a load reads the device, a write is done
apiServe(c, i) ==
  /\ i \in 1..Len(http[c])
  /\ http[c][i].stage = "sent"
  /\ remoteRelays' = apiEffect(remoteRelays, http[c][i])
  /\ http' = [http EXCEPT ![c][i].stage = "ok", ![c][i].val = remoteRelays,
                          ![c][i].online = remoteOnline]
  /\ inbox' = broadcast(inbox, remoteRelays, remoteRelays')
  /\ UNCHANGED << clock, phase, apiConnected, relayStates, outbox, notices,
                  ops,
                  currentUser, listeners, deviceOnline, remoteOnline,
                  activeCount, toggles, modal, loginError >>

\* the API server, or the way to it, fails the request
apiFail(c, i) ==
  /\ i \in 1..Len(http[c])
  /\ http[c][i].stage = "sent"
  /\ http' = [http EXCEPT ![c][i].stage = "err"]
  /\ UNCHANGED << remoteRelays, clock, phase, apiConnected, relayStates, inbox,
                  outbox, notices, ops,
                  currentUser, listeners, deviceOnline, remoteOnline,
                  activeCount, toggles, modal, loginError >>

\* what the device, or anyone with the database console, may put under relays:
\* a status, a name, or nothing at all (the node is removed)
ReportKeys == {1, RELAY_COUNT + 1}

Removed == [status |-> "undefined", name |-> "undefined"]

\* the status is a boolean when a dashboard wrote it; the console and the
\* device can store any JSON value, such as the number 1
ReportNodes == {[status |-> "true", name |-> "undefined"],
                [status |-> "1", name |-> "undefined"],
                [status |-> "undefined", name |-> "Pump"],
                Removed}

\* the relays subtree after one node was replaced
withNode(relays, k, node) ==
  [j \in IF node = Removed THEN (DOMAIN relays) \ {k} ELSE (DOMAIN relays) \cup {k} |->
     IF j = k THEN node ELSE relays[j]]

\* the device writes one relay node of its own accord
deviceReport(k, node) ==
  /\ ops["device"] < MaxReports
  /\ remoteRelays' = withNode(remoteRelays, k, node)
  /\ remoteRelays' # remoteRelays
  /\ inbox' = broadcast(inbox, remoteRelays, remoteRelays')
  /\ ops' = [ops EXCEPT !["device"] = @ + 1]
  /\ UNCHANGED << clock, phase, apiConnected, relayStates, outbox, http,
                  notices,
                  currentUser, listeners, deviceOnline, remoteOnline,
                  activeCount, toggles, modal, loginError >>

\* the device comes online, or its connection is noticed to be gone
onlineReport(v) ==
  /\ ops["device"] < MaxOps
  /\ v # remoteOnline
  /\ remoteOnline' = v
  /\ inbox' = broadcastOnline(inbox, v)
  /\ ops' = [ops EXCEPT !["device"] = @ + 1]
  /\ UNCHANGED << remoteRelays, clock, phase, apiConnected, relayStates, outbox,
                  http, notices, currentUser, listeners, deviceOnline,
                  activeCount, toggles, modal, loginError >>

\* the database, whose rules grant reads to signed-in users only, cancels the
\* listeners of a page that signed out; no on() call passed a cancel callback,
\* so the page shows nothing
revoke(c) ==
  /\ currentUser[c] = "null"
  /\ listeners[c] > 0
  /\ listeners' = [listeners EXCEPT ![c] = 0]
  /\ UNCHANGED << remoteRelays, clock, phase, apiConnected, relayStates, inbox,
                  outbox, http, notices, ops, currentUser, deviceOnline,
                  remoteOnline,
                  activeCount, toggles, modal, loginError >>

\* ------------------------------------------------------------------ Next
Next ==
  \/ \E c \in Clients : constructor(c)
  \/ \E c \in Clients, user \in {"null", "user"} : onAuthStateChanged(c, user)
  \/ \E c \in Clients : loginFailed(c)
  \/ \E c \in Clients, ok \in BOOLEAN : checkApiConnection(c, ok)
  \/ \E c \in Clients : relaysListener(c)
  \/ \E c \in Clients : onlineListener(c)
  \/ \E c \in Clients : onceCallback(c)
  \/ \E c \in Clients : onceFailed(c)
  \/ \E c \in Clients : writeResolved(c)
  \/ \E c \in Clients : writeRejected(c)
  \/ \E c \in Clients, i \in 1..MaxOps + 1 : apiLoaded(c, i)
  \/ \E c \in Clients, i \in 1..MaxOps + 1 : apiResolved(c, i)
  \/ \E c \in Clients, i \in 1..MaxOps + 1 : apiRejected(c, i)
  \/ \E c \in Clients, relayId \in ClickChannels : toggleRelay(c, relayId)
  \/ \E c \in Clients, status \in {"true", "false"} : setAllRelays(c, status)
  \/ \E c \in Clients : toggleAllRelays(c)
  \/ \E c \in Clients : remoteApply(c)
  \/ \E c \in Clients : remoteReject(c)
  \/ \E c \in Clients, i \in 1..MaxOps + 1 : apiServe(c, i)
  \/ \E c \in Clients, i \in 1..MaxOps + 1 : apiFail(c, i)
  \/ \E c \in Clients : revoke(c)
  \/ \E k \in ReportKeys, node \in ReportNodes : deviceReport(k, node)
  \/ \E v \in {"true", "false"} : onlineReport(v)

Spec == Init /\ [][Next]_vars

\* the operations of all actors so far
Spent == ops["basic"] + ops["api"] + ops["device"]

\* one stream of operations: the next one is started while the budget lasts
Pool == Spent < MaxOps

\* one dashboard open at a time: the script of a page runs when no other page
\* is open; whoever else writes to the database shows as a device report
open(c) ==
  /\ \A d \in Clients : phase[d] = "unloaded"
  /\ constructor(c)

PageNext ==
  \/ \E c \in Clients : open(c)
  \/ \E c \in Clients : onAuthStateChanged(c, "user")
  \/ \E c \in Clients : Pool /\ currentUser[c] = "user" /\ onAuthStateChanged(c, "null")
  \/ \E c \in Clients, ok \in BOOLEAN : checkApiConnection(c, ok)
  \/ \E c \in Clients : relaysListener(c)
  \/ \E c \in Clients : onlineListener(c)
  \/ \E c \in Clients : onceCallback(c)
  \/ \E c \in Clients : onceFailed(c)
  \/ \E c \in Clients : writeResolved(c)
  \/ \E c \in Clients : writeRejected(c)
  \/ \E c \in Clients, i \in 1..MaxOps + 1 : apiLoaded(c, i)
  \/ \E c \in Clients, i \in 1..MaxOps + 1 : apiResolved(c, i)
  \/ \E c \in Clients, i \in 1..MaxOps + 1 : apiRejected(c, i)
  \/ \E c \in Clients, relayId \in ClickChannels : Pool /\ toggleRelay(c, relayId)
  \/ \E c \in Clients, status \in {"true", "false"} : Pool /\ setAllRelays(c, status)
  \/ \E c \in Clients : Pool /\ toggleAllRelays(c)
  \/ \E c \in Clients : remoteApply(c)
  \/ \E c \in Clients : remoteReject(c)
  \/ \E c \in Clients, i \in 1..MaxOps + 1 : apiServe(c, i)
  \/ \E c \in Clients, i \in 1..MaxOps + 1 : apiFail(c, i)
  \/ \E c \in Clients : revoke(c)
  \/ \E k \in ReportKeys, node \in ReportNodes : Pool /\ deviceReport(k, node)
  \/ \E v \in {"true", "false"} : Pool /\ onlineReport(v)

PageSpec == Init /\ [][PageNext]_vars

\* the pages alone, each signed in once: nobody but the dashboards writes to
\* the database
SyncNext ==
  \/ \E c \in Clients : constructor(c)
  \/ \E c \in Clients : phase[c] = "constructed" /\ onAuthStateChanged(c, "user")
  \/ \E c \in Clients, ok \in BOOLEAN : checkApiConnection(c, ok)
  \/ \E c \in Clients : relaysListener(c)
  \/ \E c \in Clients : onlineListener(c)
  \/ \E c \in Clients : onceCallback(c)
  \/ \E c \in Clients : onceFailed(c)
  \/ \E c \in Clients : writeResolved(c)
  \/ \E c \in Clients : writeRejected(c)
  \/ \E c \in Clients, i \in 1..MaxOps + 1 : apiLoaded(c, i)
  \/ \E c \in Clients, i \in 1..MaxOps + 1 : apiResolved(c, i)
  \/ \E c \in Clients, i \in 1..MaxOps + 1 : apiRejected(c, i)
  \/ \E c \in Clients, relayId \in ClickChannels : Pool /\ toggleRelay(c, relayId)
  \/ \E c \in Clients, status \in {"true", "false"} : Pool /\ setAllRelays(c, status)
  \/ \E c \in Clients : Pool /\ toggleAllRelays(c)
  \/ \E c \in Clients : remoteApply(c)
  \/ \E c \in Clients : remoteReject(c)
  \/ \E c \in Clients, i \in 1..MaxOps + 1 : apiServe(c, i)
  \/ \E c \in Clients, i \in 1..MaxOps + 1 : apiFail(c, i)

\* everything but what the user does: page load, the remote store and the API
\* server settling requests, the event loop running callbacks
Progress ==
  \E c \in Clients :
    \/ constructor(c)
    \/ \E ok \in BOOLEAN : checkApiConnection(c, ok)
    \/ relaysListener(c) \/ onlineListener(c) \/ onceCallback(c) \/ onceFailed(c)
    \/ writeResolved(c) \/ writeRejected(c)
    \/ remoteApply(c) \/ remoteReject(c)
    \/ \E i \in 1..MaxOps + 1 :
         apiLoaded(c, i) \/ apiResolved(c, i) \/ apiRejected(c, i)
           \/ apiServe(c, i) \/ apiFail(c, i)

\* fair delivery: what is pending is eventually served, delivered and handled
SyncSpec == Init /\ [][SyncNext]_vars /\ WF_vars(Progress)

\* one dashboard open at a time with the session restored at page load, and a
\* device that reports on its own account while nobody touches the page
StoreNext ==
  \/ \E c \in Clients : open(c)
  \/ \E c \in Clients : phase[c] = "constructed" /\ onAuthStateChanged(c, "user")
  \/ \E c \in Clients, ok \in BOOLEAN : checkApiConnection(c, ok)
  \/ \E c \in Clients : relaysListener(c)
  \/ \E c \in Clients : onlineListener(c)
  \/ \E c \in Clients : onceCallback(c)
  \/ \E c \in Clients, i \in 1..MaxOps + 1 : apiLoaded(c, i)
  \/ \E c \in Clients, i \in 1..MaxOps + 1 : apiServe(c, i)
  \/ \E k \in ReportKeys, node \in ReportNodes : deviceReport(k, node)

StoreSpec == Init /\ [][StoreNext]_vars

\* the same, and the controls of the running page may be created once more
ReinitNext ==
  \/ StoreNext
  \/ \E c \in Clients : recreateRelayControls(c)

ReinitSpec == Init /\ [][ReinitNext]_vars

\* one dashboard open at a time and a user who signs in, fails to, and signs
\* out; nobody clicks a relay and the device is silent
AuthNext ==
  \/ \E c \in Clients : open(c)
  \/ \E c \in Clients, user \in {"null", "user"} : onAuthStateChanged(c, user)
  \/ \E c \in Clients : loginFailed(c)
  \/ \E c \in Clients, ok \in BOOLEAN : checkApiConnection(c, ok)
  \/ \E c \in Clients : relaysListener(c)
  \/ \E c \in Clients : onlineListener(c)
  \/ \E c \in Clients : onceCallback(c)
  \/ \E c \in Clients, i \in 1..MaxOps + 1 : apiLoaded(c, i)
  \/ \E c \in Clients, i \in 1..MaxOps + 1 : apiServe(c, i)
  \/ \E c \in Clients : revoke(c)

AuthSpec == Init /\ [][AuthNext]_vars

\* the page has settled: nothing sent is unanswered, nothing waits to be handled
Idle(c) == outbox[c] = << >> /\ http[c] = << >> /\ inbox[c] = << >>

\* the same with a user at work, who clicks when the page has settled; the
\* device reports on the first relay while the requests of the page are under way
LiveNext ==
  \/ \E c \in Clients : open(c)
  \/ \E c \in Clients : phase[c] = "constructed" /\ onAuthStateChanged(c, "user")
  \/ \E c \in Clients, ok \in BOOLEAN : checkApiConnection(c, ok)
  \/ \E c \in Clients : relaysListener(c)
  \/ \E c \in Clients : onlineListener(c)
  \/ \E c \in Clients : onceCallback(c)
  \/ \E c \in Clients : writeResolved(c)
  \/ \E c \in Clients : writeRejected(c)
  \/ \E c \in Clients, i \in 1..MaxOps + 1 : apiLoaded(c, i)
  \/ \E c \in Clients, i \in 1..MaxOps + 1 : apiResolved(c, i)
  \/ \E c \in Clients, i \in 1..MaxOps + 1 : apiRejected(c, i)
  \/ \E c \in Clients : Idle(c) /\ toggleRelay(c, 1)
  \/ \E c \in Clients, status \in {"true", "false"} : Idle(c) /\ setAllRelays(c, status)
  \/ \E c \in Clients : Idle(c) /\ toggleAllRelays(c)
  \/ \E c \in Clients : remoteApply(c)
  \/ \E c \in Clients : remoteReject(c)
  \/ \E c \in Clients, i \in 1..MaxOps + 1 : apiServe(c, i)
  \/ \E c \in Clients, i \in 1..MaxOps + 1 : apiFail(c, i)
  \/ \E node \in ReportNodes : ops["device"] < MaxOps /\ deviceReport(1, node)

LiveSpec == Init /\ [][LiveNext]_vars

\* two pages signed in once, each toggling the first relay within its own
\* budget, every request being accepted
RaceNext ==
  \/ \E c \in Clients : constructor(c)
  \/ \E c \in Clients : phase[c] = "constructed" /\ onAuthStateChanged(c, "user")
  \/ \E c \in Clients, ok \in BOOLEAN : checkApiConnection(c, ok)
  \/ \E c \in Clients : relaysListener(c)
  \/ \E c \in Clients : onlineListener(c)
  \/ \E c \in Clients : onceCallback(c)
  \/ \E c \in Clients : writeResolved(c)
  \/ \E c \in Clients, i \in 1..MaxOps + 1 : apiLoaded(c, i)
  \/ \E c \in Clients, i \in 1..MaxOps + 1 : apiResolved(c, i)
  \/ \E c \in Clients : toggleRelay(c, 1)
  \/ \E c \in Clients : remoteApply(c)
  \/ \E c \in Clients, i \in 1..MaxOps + 1 : apiServe(c, i)

RaceSpec == Init /\ [][RaceNext]_vars

\* ================================================================ claims
\* the requests a page has in flight, database writes and API requests alike
Sent(ob, ht, c) == Len(ob[c]) + Len(ht[c])

\* the pages that exist
Loaded == {c \in Clients : phase[c] # "unloaded"}

\* C1: from its initialisation on, the relay store of a page holds exactly the
\* 16 entries relay_1..relay_16, whatever the remote store reports.
C1_StoreKeysFixed ==
  \A c \in Loaded : DOMAIN relayStates[c] = Channels

\* C2: the relay store of a page changes only in a step of the listener of the
\* remote relay subscription.
C2_OnlySubscription ==
  [][\A c \in Loaded : relayStates'[c] # relayStates[c] => relaysListener(c)]_vars

\* C2, amended: the relay store of a page changes only in a step that applies
\* remote data: the subscription's listener, the callback of the one-time
\* database read, or the answer of the API to the initial load. No intent and
\* no settled write changes it.
C2_OnlyRemoteData ==
  [][\A c \in Loaded :
       relayStates'[c] # relayStates[c]
         => \/ relaysListener(c)
            \/ onceCallback(c)
            \/ \E i \in 1..Len(http[c]) : apiLoaded(c, i)]_vars

\* a page whose own write was accepted and answered, and whose store holds
\* remote data from two deliveries
C2_Witness ==
  \E c \in Loaded :
    /\ clock[c] >= 2
    /\ notices[c].success > 0
    /\ relayStates[c] # createRelayControls

\* C3: the rejection of a single-channel or batched write, at the remote store
\* or at the API, and the report of it on the page leave every entry of every
\* relay store as it was.
C3_RejectKeepsStore ==
  [][\A c \in Clients :
       (\/ remoteReject(c)
        \/ writeRejected(c)
        \/ \E i \in 1..Len(http[c]) :
             http[c][i].intent # "load" /\ (apiFail(c, i) \/ apiRejected(c, i)))
       => relayStates' = relayStates]_vars

\* a page that reported a failed write and still holds the remote data it had
C3_Witness ==
  \E c \in Loaded :
    /\ c = "basic"
    /\ notices[c].error > 0
    /\ clock[c] > 0
    /\ relayStates[c][1].status = "true"
    /\ Sent(outbox, http, c) = 0

\* C4: a toggle of channel ch issues exactly one request and no read: a write
\* to the status path of ch alone (or the API request for relay ch) whose value
\* is the negation of the status cached for ch when the intent is issued.
C4_ToggleOneWrite ==
  [][\A c \in Clients, ch \in ClickChannels :
       toggleRelay(c, ch)
         => /\ Sent(outbox', http', c) = Sent(outbox, http, c) + 1
            /\ \A d \in Clients \ {c} : outbox'[d] = outbox[d] /\ http'[d] = http[d]
            /\ inbox' = inbox
            /\ \/ /\ outbox'[c] # outbox[c]
                  /\ outbox'[c][Len(outbox'[c])].op = "set"
                  /\ DOMAIN outbox'[c][Len(outbox'[c])].updates = {ch}
                  /\ outbox'[c][Len(outbox'[c])].updates[ch]
                       = (IF Truthy(relayStates[c][ch].status) THEN "false" ELSE "true")
               \/ /\ http'[c] # http[c]
                  /\ http'[c][Len(http'[c])].endpoint = "relay"
                  /\ http'[c][Len(http'[c])].chan = ch
                  /\ http'[c][Len(http'[c])].status
                       = (IF Truthy(relayStates[c][ch].status) THEN "false" ELSE "true")]_vars

\* a toggle of a channel that is cached on: the write in flight carries false
C4_Witness ==
  \E c \in Loaded :
    /\ outbox[c] # << >>
    /\ Head(outbox[c]).intent = "toggleRelay"
    /\ Head(outbox[c]).updates[Head(outbox[c]).chan] = "false"
    /\ relayStates[c][Head(outbox[c]).chan].status = "true"

\* C5: a toggle-all issues a single batched write whose value for each of the
\* 16 channels is the negation of the status cached for that channel.
C5_ToggleAllFromCache ==
  [][\A c \in Clients :
       toggleAllRelays(c)
         => /\ Sent(outbox', http', c) = Sent(outbox, http, c) + 1
            /\ outbox'[c] # outbox[c]
            /\ outbox'[c][Len(outbox'[c])].op = "update"
            /\ DOMAIN outbox'[c][Len(outbox'[c])].updates = Channels
            /\ \A k \in Channels :
                 outbox'[c][Len(outbox'[c])].updates[k]
                   = (IF Truthy(relayStates[c][k].status) THEN "false" ELSE "true")]_vars

\* C5, amended: a toggle-all issues a single request. Sent to the database (the
\* basic dashboard, and the API-capable one without API connection) it is one
\* batched write with, per channel, the negation of that channel's cached
\* status; sent to the API it is one toggle-all request that carries no value.
C5_ToggleAllRequest ==
  [][\A c \in Clients :
       toggleAllRelays(c)
         => /\ Sent(outbox', http', c) = Sent(outbox, http, c) + 1
            /\ IF apiConnected[c]
                 THEN /\ outbox' = outbox
                      /\ http'[c][Len(http'[c])].endpoint = "toggle-all"
                      /\ http'[c][Len(http'[c])].status = "undefined"
                 ELSE /\ http' = http
                      /\ outbox'[c][Len(outbox'[c])].op = "update"
                      /\ DOMAIN outbox'[c][Len(outbox'[c])].updates = Channels
                      /\ \A k \in Channels :
                           outbox'[c][Len(outbox'[c])].updates[k]
                             = (IF Truthy(relayStates[c][k].status) THEN "false"
                                                                    ELSE "true")]_vars

\* a toggle-all from a mixed cache: the batch in flight is mixed as well
C5_Witness ==
  \E c \in Loaded :
    /\ outbox[c] # << >>
    /\ Head(outbox[c]).intent = "toggleAllRelays"
    /\ relayStates[c][1].status = "true"
    /\ relayStates[c][3].status = "false"
    /\ Head(outbox[c]).updates[1] = "false"
    /\ Head(outbox[c]).updates[3] = "true"

\* C6: a set-all(v) issues exactly one batched write of exactly 16 entries, one
\* per status path relay_1..relay_16, each with the value v.
C6_SetAllSixteen ==
  [][\A c \in Clients, v \in {"true", "false"} :
       setAllRelays(c, v)
         => /\ Sent(outbox', http', c) = Sent(outbox, http, c) + 1
            /\ outbox'[c] # outbox[c]
            /\ outbox'[c][Len(outbox'[c])].op = "update"
            /\ DOMAIN outbox'[c][Len(outbox'[c])].updates = Channels
            /\ \A k \in Channels : outbox'[c][Len(outbox'[c])].updates[k] = v]_vars

\* C6, amended: a set-all(v) issues exactly one request. Sent to the database
\* it is one batched write of exactly 16 entries, one per status path
\* relay_1..relay_16, each v; sent to the API it is one bulk request whose
\* body is the single status v.
C6_SetAllRequest ==
  [][\A c \in Clients, v \in {"true", "false"} :
       setAllRelays(c, v)
         => /\ Sent(outbox', http', c) = Sent(outbox, http, c) + 1
            /\ IF apiConnected[c]
                 THEN /\ outbox' = outbox
                      /\ http'[c][Len(http'[c])].endpoint = "bulk"
                      /\ http'[c][Len(http'[c])].status = v
                 ELSE /\ http' = http
                      /\ outbox'[c][Len(outbox'[c])].op = "update"
                      /\ DOMAIN outbox'[c][Len(outbox'[c])].updates = Channels
                      /\ \A k \in Channels :
                           outbox'[c][Len(outbox'[c])].updates[k] = v]_vars

\* a set-all(true) from a mixed cache is in flight with its 16 entries
C6_Witness ==
  \E c \in Loaded :
    /\ outbox[c] # << >>
    /\ Head(outbox[c]).intent = "setAllRelays"
    /\ relayStates[c][1].status = "true"
    /\ relayStates[c][3].status = "false"
    /\ \A k \in Channels : Head(outbox[c]).updates[k] = "true"

\* the step of page c applies relayData the way C7 says
C7_Frame(c, relayData) ==
  relayData # Empty
    => \A k \in DOMAIN relayStates[c] :
         IF k \in DOMAIN relayData
           THEN relayStates'[c][k].status
                  = (IF Truthy(relayData[k].status) THEN relayData[k].status
                                                    ELSE "false")
           ELSE relayStates'[c][k] = relayStates[c][k]

\* C7: a snapshot handed to updateRelayStates changes only the channels it
\* mentions: a mentioned channel gets the reported status (off when the node
\* reports none), a channel it does not mention keeps status, name and
\* last-changed.
C7_SnapshotFrame ==
  [][\A c \in Loaded :
       /\ (relaysListener(c) \/ onceCallback(c)) => C7_Frame(c, Head(inbox[c]).val)
       /\ \A i \in 1..Len(http[c]) : apiLoaded(c, i) => C7_Frame(c, http[c][i].val)]_vars

\* a channel that an earlier snapshot switched on and stamped, and that the
\* latest snapshot applied did not mention
C7_Witness ==
  \E c \in Loaded : \E k \in Channels :
    /\ relayStates[c][k].status = "true"
    /\ relayStates[c][k].lastChanged # NullDate
    /\ relayStates[c][k].lastChanged < clock[c]

\* C8: the last-changed timestamp of a channel is updated only by a snapshot
\* whose status for the channel differs from the recorded one, so that the
\* second of two equal snapshots leaves every timestamp as it is.
C8_StampOnlyOnChange ==
  [][\A c \in Loaded : \A k \in DOMAIN relayStates[c] :
       relayStates'[c][k].lastChanged # relayStates[c][k].lastChanged
         => relayStates'[c][k].status # relayStates[c][k].status]_vars

\* C9: as long as no remote data has been applied, the store of a page holds
\* exactly relay_1..relay_16, each off, each with its configured, non-empty
\* name and without last-changed timestamp.
C9_InitialStore ==
  \A c \in Loaded :
    clock[c] = 0
      => /\ DOMAIN relayStates[c] = 1..16
         /\ \A k \in DOMAIN relayStates[c] :
              /\ relayStates[c][k].status = "false"
              /\ relayStates[c][k].name \notin {"", "undefined"}
              /\ relayStates[c][k].name \in {RELAY_NAMES[k], DeviceName(k)}
              /\ relayStates[c][k].lastChanged = NullDate

\* a page that is subscribed and has handled its first events, none of which
\* carried data
C9_Witness ==
  \E c \in Loaded :
    phase[c] = "syncing" /\ clock[c] = 0 /\ inbox[c] = << >> /\ http[c] = << >>

\* nothing is pending anywhere and every page is subscribed
Quiescent ==
  \A c \in Clients :
    /\ phase[c] = "syncing" /\ c \in Subscribed
    /\ inbox[c] = << >> /\ outbox[c] = << >> /\ http[c] = << >>

\* the status a page shows for what the remote store holds (absent is off)
Shown(v) == IF Truthy(v) THEN v ELSE "false"

\* C10: once every pending write, answer and notification has been delivered,
\* the status every page caches for a channel is the one the remote store
\* holds for it.
C10_Converged ==
  Quiescent
    => \A c \in Clients : \A k \in Channels :
         relayStates[c][k].status = Shown(remoteStatus(remoteRelays, k))

\* C11: when the remote store applies a toggle-all of a page, the status it
\* then holds for every relay is the negation of the status it held just
\* before, whatever the page had cached.
C11_TogglesRemote ==
  [][\A c \in Clients :
       (\/ remoteApply(c) /\ Head(outbox[c]).intent = "toggleAllRelays"
        \/ \E i \in 1..Len(http[c]) :
             apiServe(c, i) /\ http[c][i].intent = "toggleAllRelays")
       => \A k \in Channels :
            remoteStatus(remoteRelays', k)
              = (IF Truthy(remoteStatus(remoteRelays, k)) THEN "false" ELSE "true")]_vars

\* C12: a page never has more than one listener registered on the relays
\* subtree, nor more than one on the online flag, whatever the sequence of
\* sign-ins, sign-outs and init() calls.
C12_OneSubscription ==
  \A c \in Clients : listeners[c] <= 1

\* C13: once the user has signed out, the page handles no notification of the
\* relays subtree or of the online flag any more, and neither its relay store
\* nor its online flag changes.
C13_SignOutReleases ==
  [][\A c \in Loaded :
       currentUser[c] = "null" /\ currentUser'[c] = "null" /\ phase[c] # "constructed"
         => /\ ~relaysListener(c)
            /\ ~onlineListener(c)
            /\ relayStates'[c] = relayStates[c]
            /\ deviceOnline'[c] = deviceOnline[c]]_vars

\* the page has one request more in flight than before
C14_OneMore(c) ==
  Sent(outbox', http', c) = Sent(outbox, http, c) + 1

\* C14: every toggle, set-all and toggle-all intent makes exactly one outbound
\* request; a request of an intent that failed is reported by exactly one
\* error notification and by nothing else, and no step other than an intent
\* (and the initial load) ever puts a request on its way: nothing is retried
\* and nothing is queued.
C14_OneAttemptOneError ==
  [][\A c \in Clients :
       /\ (\/ \E ch \in ClickChannels : toggleRelay(c, ch)
           \/ \E v \in {"true", "false"} : setAllRelays(c, v)
           \/ toggleAllRelays(c))
          => C14_OneMore(c) /\ notices' = notices /\ ops'[c] = ops[c] + 1
       /\ (\/ writeRejected(c)
           \/ \E i \in 1..Len(http[c]) : http[c][i].intent # "load" /\ apiRejected(c, i))
          => /\ notices'[c].error = notices[c].error + 1
             /\ notices'[c].success = notices[c].success
             /\ Sent(outbox', http', c) <= Sent(outbox, http, c)
       /\ Sent(outbox', http', c) > Sent(outbox, http, c)
          => /\ C14_OneMore(c)
             /\ \/ ops'[c] = ops[c] + 1 /\ currentUser'[c] = currentUser[c]
                \/ phase[c] = "checking"]_vars

\* the basic dashboard after its one intent failed: one error shown, nothing
\* in flight, nothing written
C14_Witness ==
  /\ notices["basic"].error = 1
  /\ notices["basic"].success = 0
  /\ ops["basic"] = 1
  /\ currentUser["basic"] = "user"
  /\ outbox["basic"] = << >>
  /\ inbox["basic"] = << >>
  /\ remoteRelays \in InitialRelays

\* C15: every failure - the cancellation of a live subscription, a rejected
\* write or request, a failed one-time read - shows one error notification on
\* the page it happens to.
C15_FailuresReported ==
  [][\A c \in Clients :
       (\/ revoke(c)
        \/ onceFailed(c)
        \/ writeRejected(c)
        \/ \E i \in 1..Len(http[c]) : apiRejected(c, i))
       => notices'[c].error = notices[c].error + 1]_vars

\* C16: a notification of the online flag sets this.deviceOnline to the value
\* reported (false when none is) and leaves the relay store and the clock it
\* stamps with untouched; a notification of the relays subtree leaves
\* this.deviceOnline untouched. Neither handler reads what the other writes,
\* so their order does not show in the result.
C16_OnlineFrame ==
  [][\A c \in Clients :
       /\ onlineListener(c)
          => /\ deviceOnline'[c] = (IF Truthy(Head(inbox[c]).online)
                                      THEN Head(inbox[c]).online ELSE "false")
             /\ relayStates' = relayStates
             /\ clock' = clock
       /\ relaysListener(c)
          => /\ deviceOnline' = deviceOnline
             /\ relayStates'[c]
                  = applyIfPresent(relayStates[c], Head(inbox[c]).val, clock[c] + 1)]_vars

\* the basic dashboard was told that the device went offline after it had
\* shown it online, and its store still holds the relay data applied before
C16_Witness ==
  /\ remoteOnline = "false"
  /\ deviceOnline["basic"] = "false"
  /\ InitialOnline(remoteRelays) = "true"
  /\ clock["basic"] > 0
  /\ relayStates["basic"][1].status = "true"
  /\ inbox["basic"] = << >>
  /\ listeners["basic"] > 0

\* the one-time reads of the device subtree a page has on their way
C17_Reads(box, ht, c) ==
  Cardinality({i \in 1..Len(box[c]) : box[c][i].kind = "once"})
    + Cardinality({i \in 1..Len(ht[c]) : ht[c][i].intent = "load"})

C18_Newest(c) ==
  LET at == {i \in 1..Len(inbox[c]) : inbox[c][i].kind = "relays"}
  IN  inbox[c][CHOOSE i \in at : \A j \in at : j <= i].val

C19_NewEvents(d) ==
  {i \in (Len(inbox[d]) + 1)..Len(inbox'[d]) : inbox'[d][i].kind = "relays"}

C20_Delivered(c) ==
  \A i \in 1..Len(inbox[c]) : inbox[c][i].kind \notin {"relays", "once"}

\* C20: a handler applies the data it is handed in the order of delivery, and
\* the data of a one-time read never replaces what a snapshot delivered after
\* the read was served has put into the store: when a read is applied and
\* every snapshot sent to the page has been delivered, the page caches what
\* the remote store holds.
C20_ReadNeverStale ==
  [][\A c \in Clients :
       /\ (relaysListener(c) \/ onceCallback(c)) /\ Head(inbox[c]).val # Empty
          => \A k \in DOMAIN Head(inbox[c]).val :
               relayStates'[c][k].status = Shown(Head(inbox[c]).val[k].status)
       /\ (onceCallback(c) \/ \E i \in 1..Len(http[c]) : apiLoaded(c, i))
          /\ c \in Subscribed /\ remoteRelays # Empty /\ C20_Delivered(c)'
          => \A k \in DOMAIN remoteRelays :
               relayStates'[c][k].status = Shown(remoteStatus(remoteRelays, k))]_vars

\* the number of channels that are on in the relay store of a page
activeInStore(c) ==
  Cardinality({k \in DOMAIN relayStates[c] : Truthy(relayStates[c][k].status)})

\* C21: once a snapshot has been applied, the active-relay count a page shows
\* is the number of channels whose status is on in its relay store, also after
\* snapshots that mention only some of the channels.
C21_CountMatchesStore ==
  \A c \in Loaded :
    clock[c] > 0 => activeCount[c] = countText(c, activeInStore(c))

\* the step of page c applies relayData and treats the names the way C22 says
C22_Names(c, relayData) ==
  \A k \in (DOMAIN relayData) \cap (DOMAIN relayStates[c]) :
    relayStates'[c][k].name
      = (IF relayData[k].name \in {"undefined", "null", ""}
           THEN relayStates[c][k].name
           ELSE relayData[k].name)

\* C22: a snapshot replaces the display name of a channel only if it supplies
\* a non-empty name for it; otherwise the stored name is kept, so a name once
\* set is not lost to a snapshot that carries only a status.
C22_NameKept ==
  [][\A c \in Loaded :
       /\ (relaysListener(c) \/ onceCallback(c)) => C22_Names(c, Head(inbox[c]).val)
       /\ \A i \in 1..Len(http[c]) : apiLoaded(c, i) => C22_Names(c, http[c][i].val)]_vars

\* a channel named by one snapshot and switched on by a later one that
\* carried a status and no name
C22_Witness ==
  \E c \in Loaded :
    /\ relayStates[c][1].name = "Pump"
    /\ Truthy(relayStates[c][1].status)
    /\ remoteRelays[1].name = "undefined"

\* C23: creating the relay controls again after snapshots have been applied
\* resets only the channels no snapshot has touched: status, name and
\* last-changed of every channel a snapshot has touched stay as they are.
C23_ReinitKeepsLive ==
  [][\A c \in Loaded :
       recreateRelayControls(c)
         => \A k \in DOMAIN relayStates[c] :
              relayStates[c][k].lastChanged # NullDate
                => relayStates'[c][k] = relayStates[c][k]]_vars

\* C24: a notification of the relay subtree whose value is null (the subtree
\* is absent or was removed remotely) is ignored: the relay store and the
\* shown active count stay as they were, channels cached on remain on.
C24_NullIgnored ==
  [][\A c \in Loaded :
       (relaysListener(c) \/ onceCallback(c)) /\ Head(inbox[c]).val = Empty
         => /\ relayStates'[c] = relayStates[c]
            /\ activeCount'[c] = activeCount[c]
            /\ toggles'[c] = toggles[c]]_vars

\* the subtree was removed remotely, the page has handled the notification
\* and still caches and counts the channel that was on
C24_Witness ==
  \E c \in Subscribed :
    /\ remoteRelays = Empty
    /\ inbox[c] = << >>
    /\ Truthy(relayStates[c][1].status)
    /\ activeCount[c] = countText(c, 1)

\* C25: the status of every entry of a relay store is a boolean, whatever
\* the remote store reports in the status field of a channel.
C25_StatusBoolean ==
  \A c \in Loaded : \A k \in DOMAIN relayStates[c] :
    relayStates[c][k].status \in {"true", "false"}

\* the request page c has just put on its way carries booleans only
C26_LastBoolean(c) ==
  /\ outbox'[c] # outbox[c]
       => \A k \in DOMAIN outbox'[c][Len(outbox'[c])].updates :
            outbox'[c][Len(outbox'[c])].updates[k] \in {"true", "false"}
  /\ http'[c] # http[c]
       => \/ http'[c][Len(http'[c])].endpoint = "toggle-all"
          \/ http'[c][Len(http'[c])].status \in {"true", "false"}

\* C26: every value a toggle, set-all or toggle-all intent writes to the
\* status path of a channel is a boolean, also when the cached status came
\* from a remote value that was not one.
C26_WritesBoolean ==
  [][\A c \in Clients :
       (\/ \E ch \in ClickChannels : toggleRelay(c, ch)
        \/ \E v \in {"true", "false"} : setAllRelays(c, v)
        \/ toggleAllRelays(c))
       => C26_LastBoolean(c)]_vars

\* a write under way that negates a cached status which is the number 1
C26_Witness ==
  \E c \in Loaded :
    /\ relayStates[c][1].status = "1"
    /\ outbox[c] # << >>
    /\ Head(outbox[c]).intent \in {"toggleRelay", "toggleAllRelays"}
    /\ Head(outbox[c]).updates[1] = "false"

\* C28: in the API-capable dashboard, once the failure of a toggle on a
\* channel has been reported, the toggle control of the channel shows the
\* status the relay store holds for it, also when a snapshot for the channel
\* was applied while the toggle was under way.
C28_RevertShowsStore ==
  [][\A ch \in ClickChannels :
       (\/ /\ writeRejected("api")
            /\ Head(inbox["api"]).intent = "toggleRelay"
            /\ Head(inbox["api"]).chan = ch
        \/ \E i \in 1..Len(http["api"]) :
             /\ apiRejected("api", i)
             /\ http["api"][i].intent = "toggleRelay"
             /\ http["api"][i].chan = ch)
       => toggles'["api"][ch] = Truthy(relayStates'["api"][ch].status)]_vars

\* the values of the toggles of relay_1 that page c has sent and that neither
\* the remote store nor the API server has applied yet
C27_Unapplied(c) ==
  {outbox[c][i].updates[1] : i \in 1..Len(outbox[c])}
    \cup {http[c][i].status :
            i \in {j \in 1..Len(http[c]) : /\ http[c][j].intent = "toggleRelay"
                                             /\ http[c][j].stage = "sent"}}

\* every page has issued exactly one toggle so far
C27_OneEach == \A c \in Clients : ops[c] = 1

C29_OneRoute ==
  [][/\ (\/ \E ch \in ClickChannels : toggleRelay("api", ch)
         \/ \E v \in {"true", "false"} : setAllRelays("api", v)
         \/ toggleAllRelays("api"))
        => IF apiConnected["api"]
             THEN /\ Len(http'["api"]) = Len(http["api"]) + 1
                  /\ outbox'["api"] = outbox["api"]
             ELSE /\ Len(outbox'["api"]) = Len(outbox["api"]) + 1
                  /\ http'["api"] = http["api"]
     /\ \A i \in 1..Len(http["api"]) :
          http["api"][i].intent # "load" /\ (apiFail("api", i) \/ apiRejected("api", i))
            => /\ outbox'["api"] = outbox["api"]
               /\ Len(http'["api"]) <= Len(http["api"])
               /\ remoteRelays' = remoteRelays]_vars

\* the connected dashboard after its one intent failed at the API: the error
\* is shown, nothing is under way and nothing was written to the database
C29_Witness ==
  /\ apiConnected["api"]
  /\ currentUser["api"] = "user"
  /\ ops["api"] = 1
  /\ notices["api"] = [success |-> 0, error |-> 1]
  /\ http["api"] = << >> /\ outbox["api"] = << >> /\ inbox["api"] = << >>
  /\ remoteRelays \in InitialRelays

\* C30: after the first authentication callback the login modal is hidden if
\* and only if a user is signed in, over every sequence of login attempts,
\* logouts and authentication callbacks; a failed login leaves the user null,
\* the modal shown and the application as it was (uninitialised when nobody
\* had signed in before).
C30_ModalIffSignedOut ==
  [][\A c \in Clients :
       /\ modal'[c] # "markup"
            => (modal'[c] = "hidden" <=> currentUser'[c] # "null")
       /\ loginFailed(c)
            => /\ currentUser'[c] = "null"
               /\ modal'[c] = "shown"
               /\ phase'[c] = phase[c]
               /\ listeners'[c] = listeners[c]
               /\ inbox'[c] = inbox[c] /\ http'[c] = http[c]]_vars

\* a login was refused on a page nobody has signed in to: the modal and the
\* error line are shown, the application is constructed and not initialised
C30_Witness ==
  \E c \in Loaded :
    /\ loginError[c] = "shown"
    /\ modal[c] = "shown"
    /\ currentUser[c] = "null"
    /\ phase[c] = "constructed"
    /\ listeners[c] = 0

====
